---- MODULE Spec2Model ----
(***************************************************************************)
(* codetiming: the Timer state machine (codetiming/_timer.py) and the      *)
(* Timers registry (codetiming/_timers.py).                                *)
(*                                                                         *)
(* Durations and clock readings are integers (clock ticks); an optional    *)
(* value is a sequence of length 0 or 1: None and NaN are <<>>, a present  *)
(* value x is <<x>>. A call of the sink (with the rendering of its text)    *)
(* either returns or raises; which one is the caller's choice at each call. *)
(* result, lastok, lastpast, returned, foreign and removed record what has  *)
(* happened; no operation reads them.                                       *)
(***************************************************************************)
EXTENDS Integers, Sequences, FiniteSets

\* ---------------------------------------------------------------- bounds
MaxClock == 1
MaxSamples == 2
MaxDepth == 1
MaxValue == 2

\* ---------------------------------------------------------------- values
None == <<>>
NaN == <<>>
Some(x) == <<x>>
Val(o) == o[1]

TimerIds == {"t1", "t2"}
\* threads that call add() concurrently
ThreadIds == {"th1", "th2"}
\* a thread that is not inside add()
NotInAdd == [pc |-> "idle", name |-> "", value |-> 0, loaded |-> 0]
\* names a registry call is given
Names == {"a", "b"}
\* Timer.name: None or a string
NameOpts == {None, Some(""), Some("a")}
\* Timer.logger: a callable (the default print) or None
LoggerOpts == {"print", "None"}
\* Timer.initial_text: falsy (False), a template string, or any other truthy
\* value (True; a callable is treated like it): the three cases start() tells apart
InitialTextOpts == {"False", "str", "True"}
\* how the body of a with-block or a decorated function ends: normally, or raising
BodyOutcomes == {None, Some("ValueError")}
\* the two uses of a Timer as a scope: "with t:" and a call of a function t decorates
ScopeKinds == {"with", "call"}
\* what a call of the sink (or the rendering before it) can do
SinkOutcomes == {"ok", "raises"}
\* values a direct add() is given
Values == 0..MaxValue
\* the statistics queries of Timers
StatNames == {"count", "total", "min", "max", "mean", "median", "stdev"}

VARIABLES
    instances,      \* the Timer instances that have been constructed
    clock,          \* time.perf_counter()
    name,           \* Timer.name, per instance
    logger,         \* Timer.logger, per instance
    initial_text,   \* Timer.initial_text, per instance
    _start_time,    \* Timer._start_time, per instance
    last,           \* Timer.last, per instance
    data,           \* Timers.data: name -> cumulative total
    _timings,       \* Timers._timings: name -> samples
    scopes,         \* the with-blocks / decorated calls in progress, innermost last
    result,         \* the most recent call: what it was, raised, returned, emitted
    lastok,         \* per timer: the last start/stop call that returned normally
    lastpast,       \* per timer: the last start/stop call not rejected with TimerError
    returned,       \* per timer: values returned by stop() since the registry was last cleared
    foreign,        \* names given a value by a direct add() since the last clear
    removed,        \* names that a clear() has removed
    threads         \* per thread: the add() call it is in the middle of, if any

vars == <<instances, clock, name, logger, initial_text, _start_time, last, data, _timings,
          scopes, result, lastok, lastpast, returned, foreign, removed, threads>>

\* what no call made from the main thread changes: the configuration of the
\* timers, and the add() calls other threads are in the middle of
config == <<instances, name, logger, initial_text, threads>>

\* ------------------------------------------------------- pure helpers
RECURSIVE sum(_)
sum(s) == IF s = <<>> THEN 0 ELSE s[1] + sum(Tail(s))

RECURSIVE SumOver(_, _)
SumOver(f, S) ==
    IF S = {} THEN 0
    ELSE LET n == CHOOSE m \in S : TRUE IN f[n] + SumOver(f, S \ {n})

\* the number of samples the registry holds
TotalSamples == SumOver([n \in DOMAIN _timings |-> Len(_timings[n])], DOMAIN _timings)

\* a test of the name against None only
name_is_not_none(nm) == nm # None

\* Python truthiness of Timer.name: None and "" are falsy
Truthy(nm) == nm # None /\ nm # Some("")

\* ------------------------------------------------------- Timers (registry)
\* an add() that overwrites the total instead of adding to it
add_overwrites_total(nm, value) ==
    LET old == IF nm \in DOMAIN _timings THEN _timings[nm] ELSE <<>>
    IN [_timings |-> [n \in DOMAIN _timings \cup {nm} |->
                         IF n = nm THEN Append(old, value) ELSE _timings[n]],
        data |-> [n \in DOMAIN data \cup {nm} |->
                         IF n = nm THEN value ELSE data[n]]]

\* an add() that starts the registry over with the one name it is given
add_alone(nm, value) ==
    LET old == IF nm \in DOMAIN _timings THEN _timings[nm] ELSE <<>>
        tot == IF nm \in DOMAIN data THEN data[nm] ELSE 0
    IN [_timings |-> [n \in {nm} |-> Append(old, value)],
        data |-> [n \in {nm} |-> tot + value]]

\* an add() that puts the new sample first
add_puts_first(nm, value) ==
    LET old == IF nm \in DOMAIN _timings THEN _timings[nm] ELSE <<>>
        tot == IF nm \in DOMAIN data THEN data[nm] ELSE 0
    IN [_timings |-> [n \in DOMAIN _timings \cup {nm} |->
                         IF n = nm THEN <<value>> \o old ELSE _timings[n]],
        data |-> [n \in DOMAIN data \cup {nm} |->
                         IF n = nm THEN tot + value ELSE data[n]]]

\* Timers.add: self._timings[name].append(value); self.data.setdefault(name, 0);
\* self.data[name] += value
add(nm, value) ==
    LET old == IF nm \in DOMAIN _timings THEN _timings[nm] ELSE <<>>
        tot == IF nm \in DOMAIN data THEN data[nm] ELSE 0
    IN [_timings |-> [n \in DOMAIN _timings \cup {nm} |->
                         IF n = nm THEN Append(old, value) ELSE _timings[n]],
        data |-> [n \in DOMAIN data \cup {nm} |->
                         IF n = nm THEN tot + value ELSE data[n]]]

\* a clear() that empties the totals and keeps the samples
clear_totals_only == [_timings |-> _timings, data |-> <<>>]

\* Timers.clear: both mappings emptied
clear == [_timings |-> <<>>, data |-> <<>>]

\* a __setitem__ that stores the value the way add() does
setitem_as_add(nm, value) ==
    [raised |-> None, _timings |-> add(nm, value)._timings, data |-> add(nm, value).data]

\* Timers.__setitem__: always rejected, nothing is written
setitem(nm, value) ==
    [raised |-> Some("TypeError"), _timings |-> _timings, data |-> data]

\* Timers[nm]: UserDict.__getitem__ reads self.data
getitem(nm) ==
    IF nm \in DOMAIN data THEN [raised |-> None, value |-> Some(data[nm])]
    ELSE [raised |-> Some("KeyError"), value |-> None]

\* a lookup in a totals mapping that answers an unknown name with a new entry
\* of 0, as a defaultdict would
after_lookup_defaulting(nm) ==
    [n \in DOMAIN data \cup {nm} |-> IF n \in DOMAIN data THEN data[n] ELSE 0]

\* self.data after Timers[nm]: self.data is the plain dict UserDict.__init__
\* makes, so a lookup of an unknown name raises KeyError and creates nothing
after_lookup(nm) == data

\* the smallest and the largest element of a non-empty sequence
seqmin(values) ==
    CHOOSE x \in {values[i] : i \in DOMAIN values} :
        \A i \in DOMAIN values : x <= values[i]
seqmax(values) ==
    CHOOSE x \in {values[i] : i \in DOMAIN values} :
        \A i \in DOMAIN values : x >= values[i]

\* sorted(values)
RECURSIVE sorted(_)
sorted(values) ==
    IF values = <<>> THEN <<>>
    ELSE LET i == CHOOSE j \in DOMAIN values : values[j] = seqmin(values)
         IN <<values[i]>> \o
            sorted(SubSeq(values, 1, i - 1) \o SubSeq(values, i + 1, Len(values)))

\* "values or [0]"
OrZero(values) == IF values = <<>> THEN <<0>> ELSE values

\* a quotient num/den is kept as the pair <<num, den>>
\* a mean that forgets to divide by the number of values
mean_undivided(values) == <<sum(values), 1>>

\* statistics.mean
mean(values) == <<sum(values), Len(values)>>

\* statistics.median
median(values) ==
    LET s == sorted(values)
        n == Len(values)
    IN IF n % 2 = 1 THEN <<s[(n + 1) \div 2], 1>>
       ELSE <<s[n \div 2] + s[n \div 2 + 1], 2>>

\* statistics.stdev of two or more values: the square root of the sample
\* variance, kept as <<"sqrt", num, den>> with variance num/den
stdev_of(values) ==
    LET n == Len(values)
        sq == [i \in DOMAIN values |-> values[i] * values[i]]
    IN <<"sqrt", n * sum(sq) - sum(values) * sum(values), n * (n - 1)>>

\* the function each statistics query hands to apply()
func(f, values) ==
    CASE f = "count" -> Some(Len(values))
      [] f = "total" -> Some(sum(values))
      [] f = "min" -> Some(seqmin(OrZero(values)))
      [] f = "max" -> Some(seqmax(OrZero(values)))
      [] f = "mean" -> mean(OrZero(values))
      [] f = "median" -> median(OrZero(values))

\* an apply() that reads self._timings[name] without the membership test: the
\* defaultdict answers an unknown name with an empty list
apply_without_check(f, nm) ==
    IF nm = None
    THEN [raised |-> None, value |-> [k \in DOMAIN _timings |-> func(f, _timings[k])]]
    ELSE [raised |-> None,
          value |-> func(f, IF Val(nm) \in DOMAIN _timings THEN _timings[Val(nm)]
                            ELSE <<>>)]

\* Timers.apply: nm is None (all names) or Some(name)
apply(f, nm) ==
    IF nm = None
    THEN [raised |-> None, value |-> [k \in DOMAIN _timings |-> func(f, _timings[k])]]
    ELSE IF Val(nm) \in DOMAIN _timings
    THEN [raised |-> None, value |-> func(f, _timings[Val(nm)])]
    ELSE [raised |-> Some("KeyError"), value |-> None]

\* a stdev() that hands fewer than two samples to statistics.stdev, which
\* raises StatisticsError
stdev_unguarded(nm) ==
    IF nm = None
    THEN IF \E k \in DOMAIN _timings : Len(_timings[k]) < 2
         THEN [raised |-> Some("StatisticsError"), value |-> None]
         ELSE [raised |-> None, value |-> [k \in DOMAIN _timings |-> stdev_of(_timings[k])]]
    ELSE IF Val(nm) \in DOMAIN _timings
    THEN IF Len(_timings[Val(nm)]) < 2
         THEN [raised |-> Some("StatisticsError"), value |-> None]
         ELSE [raised |-> None, value |-> stdev_of(_timings[Val(nm)])]
    ELSE [raised |-> Some("KeyError"), value |-> None]

\* Timers.stdev
stdev(nm) ==
    IF nm = None
    THEN [raised |-> None,
          value |-> [k \in DOMAIN _timings |->
                        IF Len(_timings[k]) >= 2 THEN stdev_of(_timings[k]) ELSE NaN]]
    ELSE IF Val(nm) \in DOMAIN _timings
    THEN [raised |-> None,
          value |-> IF Len(_timings[Val(nm)]) >= 2 THEN stdev_of(_timings[Val(nm)])
                    ELSE NaN]
    ELSE [raised |-> Some("KeyError"), value |-> None]

\* a query that indexes the defaultdict self._timings with a name it does not
\* hold, which makes the defaultdict create an empty list under that name
after_query_unchecked(nm) ==
    IF nm # None /\ Val(nm) \notin DOMAIN _timings
    THEN [n \in DOMAIN _timings \cup {Val(nm)} |->
             IF n \in DOMAIN _timings THEN _timings[n] ELSE <<>>]
    ELSE _timings

\* self._timings after a statistics query: apply() and stdev() index the
\* defaultdict only behind "if name in self._timings" and otherwise iterate
\* over its items, so no entry is created
after_query(nm) == _timings

\* Timers.count, .total, .min, .max, .mean, .median, .stdev
stat(f, nm) == IF f = "stdev" THEN stdev(nm) ELSE apply(f, nm)

\* ------------------------------------------------------- Timer
Running(t) == _start_time[t] # None

\* the registry as it is
registry == [_timings |-> _timings, data |-> data]

\* a start() that never rejects: a running timer is restarted
start_never_rejects(t) == FALSE

\* start(): "if self._start_time is not None: raise TimerError"
start_rejects(t) == _start_time[t] # None

\* a start() that does not look at the sink before rendering
logs_initial_text_without_sink(t) == initial_text[t] # "False"

\* start(): "if self.logger and self.initial_text"
logs_initial_text(t) == logger[t] # "None" /\ initial_text[t] # "False"

\* the initial message start() renders: the template with {name} substituted,
\* kept as <<template, name>>
InitialMessage(t) ==
    IF initial_text[t] = "str" THEN <<"initial_text", name[t]>>
    ELSE IF Truthy(name[t]) THEN <<"Timer {name} started", name[t]>>
    ELSE <<"Timer started", None>>

\* a start() that starts over on a timer that is already running
start_restarts(t, sink) ==
    IF logs_initial_text(t) /\ sink = "raises"
    THEN [raised |-> Some("Exception"), _start_time |-> _start_time[t], emitted |-> <<>>]
    ELSE [raised |-> None, _start_time |-> Some(clock),
          emitted |-> IF logs_initial_text(t) THEN <<InitialMessage(t)>> ELSE <<>>]

\* Timer.start, with what the sink does if it is called
start(t, sink) ==
    IF start_rejects(t)
    THEN [raised |-> Some("TimerError"), _start_time |-> _start_time[t], emitted |-> <<>>]
    ELSE IF logs_initial_text(t)
    THEN IF sink = "raises"
         THEN [raised |-> Some("Exception"), _start_time |-> _start_time[t],
               emitted |-> <<>>]
         ELSE [raised |-> None, _start_time |-> Some(clock),
               emitted |-> <<InitialMessage(t)>>]
    ELSE [raised |-> None, _start_time |-> Some(clock), emitted |-> <<>>]

\* a stop() that answers 0 on a timer that is not running instead of raising
stop_rejected_as_zero(t) ==
    [raised |-> None, _start_time |-> None, last |-> Some(0), emitted |-> <<>>,
     value |-> Some(0), _timings |-> _timings, data |-> data]

\* stop() on a timer that is not running: TimerError before anything is touched
stop_rejected(t) ==
    [raised |-> Some("TimerError"), _start_time |-> _start_time[t],
     last |-> last[t], emitted |-> <<>>, value |-> None,
     _timings |-> _timings, data |-> data]

\* a stop() that reports the clock reading instead of the difference
elapsed_is_now(t) == clock

\* a stop() that subtracts the wrong way round
elapsed_reversed(t) == Val(_start_time[t]) - clock

\* stop(): "self.last = time.perf_counter() - self._start_time"
elapsed(t) == clock - Val(_start_time[t])

\* a stop() that forgets to clear the start timestamp
stopped_start_time_kept(t) == _start_time[t]

\* stop(): "self._start_time = None"
stopped_start_time(t) == None

\* stop(): the report handed to the sink: text rendered with the duration and
\* the name, kept as <<"text", last, name>>
report(t, seconds) == <<"text", Some(seconds), name[t]>>

\* a stop() that never deposits
deposit_nothing(t, seconds) == registry

\* stop(): "if self.name: self.timers.add(self.name, self.last)"
deposit(t, seconds) ==
    IF Truthy(name[t]) THEN add(Val(name[t]), seconds) ELSE registry

\* a stop() that deposits into the registry before it renders and emits
stop_deposits_first(t, sink) ==
    IF _start_time[t] = None
    THEN stop_rejected(t)
    ELSE [raised |-> IF logger[t] # "None" /\ sink = "raises" THEN Some("Exception") ELSE None,
          _start_time |-> stopped_start_time(t),
          last |-> Some(elapsed(t)),
          emitted |-> IF logger[t] # "None" /\ sink = "ok"
                      THEN <<report(t, elapsed(t))>> ELSE <<>>,
          value |-> IF logger[t] # "None" /\ sink = "raises" THEN None
                    ELSE Some(elapsed(t)),
          _timings |-> deposit(t, elapsed(t))._timings,
          data |-> deposit(t, elapsed(t)).data]

\* Timer.stop, with what the sink does if it is called
stop(t, sink) ==
    IF _start_time[t] = None
    THEN stop_rejected(t)
    ELSE IF logger[t] # "None" /\ sink = "raises"
    THEN [raised |-> Some("Exception"), _start_time |-> stopped_start_time(t),
          last |-> Some(elapsed(t)), emitted |-> <<>>, value |-> None,
          _timings |-> _timings, data |-> data]
    ELSE [raised |-> None, _start_time |-> stopped_start_time(t),
          last |-> Some(elapsed(t)),
          emitted |-> IF logger[t] # "None" THEN <<report(t, elapsed(t))>> ELSE <<>>,
          value |-> Some(elapsed(t)),
          _timings |-> deposit(t, elapsed(t))._timings,
          data |-> deposit(t, elapsed(t)).data]

\* an __exit__ that swallows what the body raised
propagates_nothing(raised, exc) == raised

\* what leaves a with-block whose body raised exc (None: nothing) and whose
\* __exit__ called a stop() that raised `raised`: __exit__ returns None, so exc
\* is re-raised, unless stop() raised on the way
propagates(raised, exc) == IF raised # None THEN raised ELSE exc

\* ------------------------------------------------------- state machine
NoResult == [op |-> "none", timer |-> "-", arg |-> None, raised |-> None,
             value |-> None, emitted |-> <<>>]

\* the state after the Timer instances in I are constructed, their initial_text
\* being of one of the given kinds; Timer.timers is empty
ConstructedWith(I, kinds) ==
    /\ instances = I
    /\ clock = 0
    /\ name \in [I -> NameOpts]
    /\ logger \in [I -> LoggerOpts]
    /\ initial_text \in [I -> kinds]
    /\ _start_time = [t \in I |-> None]
    /\ last = [t \in I |-> NaN]
    /\ data = <<>>
    /\ _timings = <<>>
    /\ scopes = <<>>
    /\ result = NoResult
    /\ lastok = [t \in I |-> "none"]
    /\ lastpast = [t \in I |-> "none"]
    /\ returned = [t \in I |-> <<>>]
    /\ foreign = {}
    /\ removed = {}
    /\ threads = [th \in ThreadIds |-> NotInAdd]

\* the state after the Timer instances in I are constructed; Timer.timers is empty
Constructed(I) == ConstructedWith(I, InitialTextOpts)

Init == Constructed({"t1"})

\* time passes
Tick ==
    /\ clock < MaxClock
    /\ clock' = clock + 1
    /\ UNCHANGED <<config, _start_time, last, data, _timings, scopes, result,
                   lastok, lastpast, returned, foreign, removed>>

\* the effect of one start() call on timer t
DoStart(t, sink, op) ==
    LET r == start(t, sink) IN
    /\ _start_time' = [_start_time EXCEPT ![t] = r._start_time]
    /\ result' = [op |-> op, timer |-> t, arg |-> None, raised |-> r.raised,
                  value |-> None, emitted |-> r.emitted]
    /\ lastok' = IF r.raised = None THEN [lastok EXCEPT ![t] = "start"] ELSE lastok
    /\ lastpast' = IF r.raised = Some("TimerError") THEN lastpast
                   ELSE [lastpast EXCEPT ![t] =
                            IF r.raised = None THEN "start" ELSE "start failed"]
    /\ UNCHANGED <<clock, config, last, data, _timings, returned, foreign, removed>>

\* the effect of one stop() call on timer t (a stop() that would deposit waits
\* while the registry holds MaxSamples samples)
DoStop(t, sink, op, exc) ==
    LET r == stop(t, sink) IN
    /\ (Running(t) /\ Truthy(name[t])) => TotalSamples < MaxSamples
    /\ _start_time' = [_start_time EXCEPT ![t] = r._start_time]
    /\ last' = [last EXCEPT ![t] = r.last]
    /\ data' = r.data
    /\ _timings' = r._timings
    /\ result' = [op |-> op, timer |-> t, arg |-> exc,
                  raised |-> propagates(r.raised, exc),
                  value |-> r.value, emitted |-> r.emitted]
    /\ lastok' = IF r.raised = None THEN [lastok EXCEPT ![t] = "stop"] ELSE lastok
    /\ lastpast' = IF r.raised = Some("TimerError") THEN lastpast
                   ELSE [lastpast EXCEPT ![t] =
                            IF r.raised = None THEN "stop" ELSE "stop failed"]
    /\ returned' = IF r.raised = None /\ Truthy(name[t])
                   THEN [returned EXCEPT ![t] = Append(@, Val(r.value))]
                   ELSE returned
    /\ UNCHANGED <<clock, config, foreign, removed>>

\* t.start()
Start(t) ==
    /\ \E sink \in SinkOutcomes : DoStart(t, sink, "start")
    /\ UNCHANGED scopes

\* t.stop()
Stop(t) ==
    /\ \E sink \in SinkOutcomes : DoStop(t, sink, "stop", None)
    /\ UNCHANGED scopes

\* "with t:" is entered (Timer.__enter__), or a function decorated with t is called
\* (ContextDecorator.__call__ enters "with self:" around the function): start()
\* runs, and the body begins only if it returns
Enter(t, kind) ==
    /\ \E sink \in SinkOutcomes :
          /\ start(t, sink).raised = None => Len(scopes) < MaxDepth
          /\ DoStart(t, sink, IF kind = "with" THEN "__enter__" ELSE "__call__")
          /\ scopes' = IF start(t, sink).raised = None
                        THEN Append(scopes, [timer |-> t, kind |-> kind])
                        ELSE scopes

\* the body of the innermost scope ends, normally or raising exc, and
\* Timer.__exit__ runs stop(); __exit__ returns None, so exc propagates unless
\* stop() itself raises
Exit(exc) ==
    /\ scopes # <<>>
    /\ LET top == scopes[Len(scopes)] IN
       \E sink \in SinkOutcomes :
          DoStop(top.timer, sink,
                 IF top.kind = "with" THEN "__exit__" ELSE "return", exc)
    /\ scopes' = SubSeq(scopes, 1, Len(scopes) - 1)

\* Timer.timers.add(nm, value), called directly
Add(nm, value) ==
    LET r == add(nm, value) IN
    /\ TotalSamples < MaxSamples
    /\ data' = r.data
    /\ _timings' = r._timings
    /\ foreign' = foreign \cup {nm}
    /\ result' = [NoResult EXCEPT !.op = "add", !.arg = <<nm, value>>]
    /\ UNCHANGED <<clock, config, _start_time, last, scopes, lastok, lastpast, returned,
                   removed>>

\* Timer.timers.clear()
Clear ==
    /\ data' = clear.data
    /\ _timings' = clear._timings
    /\ foreign' = {}
    /\ removed' = removed \cup DOMAIN data \cup DOMAIN _timings
    /\ returned' = [t \in instances |-> <<>>]
    /\ result' = [NoResult EXCEPT !.op = "clear"]
    /\ UNCHANGED <<clock, config, _start_time, last, scopes, lastok, lastpast>>

\* the registry is left as it is
RegistryUnchanged == UNCHANGED <<data, _timings, foreign, returned, removed>>
TimersUnchanged == UNCHANGED <<clock, config, _start_time, last, scopes, lastok, lastpast>>

\* Timer.timers[nm] = value
SetItem(nm, value) ==
    LET r == setitem(nm, value) IN
    /\ data' = r.data
    /\ _timings' = r._timings
    /\ result' = [NoResult EXCEPT !.op = "__setitem__", !.arg = <<nm, value>>,
                                   !.raised = r.raised]
    /\ UNCHANGED <<foreign, returned, removed>>
    /\ TimersUnchanged

\* Timer.timers[nm]
GetItem(nm) ==
    LET r == getitem(nm) IN
    /\ result' = [NoResult EXCEPT !.op = "__getitem__", !.arg = <<nm>>,
                                   !.raised = r.raised, !.value = r.value]
    /\ data' = after_lookup(nm)
    /\ UNCHANGED <<_timings, foreign, returned, removed>>
    /\ TimersUnchanged

\* Timer.timers.count(nm), .total(nm), ... with nm a name or absent
Stat(f, nm) ==
    LET r == stat(f, nm) IN
    /\ result' = [NoResult EXCEPT !.op = f, !.arg = nm,
                                   !.raised = r.raised, !.value = r.value]
    /\ _timings' = after_query(nm)
    /\ UNCHANGED <<data, foreign, returned, removed>>
    /\ TimersUnchanged

\* One Timer instance and the shared registry: the clock advances, the timer
\* is driven explicitly, as a context manager and as a decorator (the bodies may
\* themselves call start() and stop()), and the registry is cleared or added to
\* directly in between. The registry's read side is exercised in SpecRegistry.
\* Only the operations the two classes define are steps; what Timers inherits
\* from UserDict beyond item lookup is not.
Next ==
    \/ Tick
    \/ \E t \in instances : Start(t)
    \/ \E t \in instances : Stop(t)
    \/ \E t \in instances, kind \in ScopeKinds : Enter(t, kind)
    \/ \E exc \in BodyOutcomes : Exit(exc)
    \/ Add("a", 1)
    \/ Clear

Spec == Init /\ [][Next]_vars

\* the registry on its own: the operations Timers defines, no Timer instance
InitRegistry == Constructed({})

NextRegistry ==
    \/ \E nm \in Names, value \in Values : Add(nm, value)
    \/ Clear
    \/ \E nm \in Names, value \in Values : SetItem(nm, value)
    \/ \E nm \in Names : GetItem(nm)
    \/ \E f \in StatNames, nm \in {None} \cup {Some(n) : n \in Names} : Stat(f, nm)

SpecRegistry == InitRegistry /\ [][NextRegistry]_vars

\* ------------------------------------------- a callable as initial_text
\* Timer.initial_text is declared Union[bool, str, Callable[[float], str]]: the
\* truthy kinds with the callable told apart from True
InitialTextKinds == {"str", "True", "callable"}

\* one Timer driven by explicit start() and stop() calls, its initial_text of
\* any truthy kind
InitInitialText == ConstructedWith({"t1"}, InitialTextKinds)

NextInitialText ==
    \/ Tick
    \/ \E t \in instances : Start(t)
    \/ \E t \in instances : Stop(t)

SpecInitialText == InitInitialText /\ [][NextInitialText]_vars

\* ------------------------------------------- timers that share a name
\* "timers: ClassVar[Timers] = Timers()": one registry for all instances. Two
\* Timer instances with the same name, without initial text, driven by
\* explicit start() and stop() calls in any interleaving
InitShared ==
    /\ ConstructedWith(TimerIds, {"False"})
    /\ \A t \in TimerIds : name[t] = Some("a")

NextShared ==
    \/ Tick
    \/ \E t \in instances : Start(t)
    \/ \E t \in instances : Stop(t)

SpecShared == InitShared /\ [][NextShared]_vars

\* ------------------------------------------- two timers and other names
\* Two Timer instances without initial text, the first named "a" and the second
\* named "a" as well or not named, driven by explicit start() and stop() calls
\* in any interleaving, while "b" is added to directly
InitFrame ==
    /\ ConstructedWith(TimerIds, {"False"})
    /\ name["t1"] = Some("a")
    /\ name["t2"] \in {Some("a"), None}

NextFrame ==
    \/ Tick
    \/ \E t \in instances : Start(t)
    \/ \E t \in instances : Stop(t)
    \/ Add("b", 1)

SpecFrame == InitFrame /\ [][NextFrame]_vars

\* ------------------------------------------- what Timers inherits from UserDict
\* "del Timer.timers[nm]": UserDict.__delitem__ is "del self.data[key]"; Timers
\* does not override it, and _timings is not touched
delitem(nm) ==
    IF nm \in DOMAIN data
    THEN [raised |-> None, _timings |-> _timings,
          data |-> [n \in DOMAIN data \ {nm} |-> data[n]]]
    ELSE [raised |-> Some("KeyError"), _timings |-> _timings, data |-> data]

\* "Timer.timers.pop(nm)": MutableMapping.pop is "value = self[key]", then
\* "del self[key]", then "return value"
pop(nm) ==
    IF getitem(nm).raised # None
    THEN [raised |-> getitem(nm).raised, value |-> None, _timings |-> _timings, data |-> data]
    ELSE [raised |-> delitem(nm).raised, value |-> getitem(nm).value,
          _timings |-> delitem(nm)._timings, data |-> delitem(nm).data]

DelItem(nm) ==
    LET r == delitem(nm) IN
    /\ data' = r.data
    /\ _timings' = r._timings
    /\ result' = [NoResult EXCEPT !.op = "__delitem__", !.arg = <<nm>>, !.raised = r.raised]
    /\ UNCHANGED <<foreign, returned, removed>>
    /\ TimersUnchanged

Pop(nm) ==
    LET r == pop(nm) IN
    /\ data' = r.data
    /\ _timings' = r._timings
    /\ result' = [NoResult EXCEPT !.op = "pop", !.arg = <<nm>>, !.raised = r.raised,
                                   !.value = r.value]
    /\ UNCHANGED <<foreign, returned, removed>>
    /\ TimersUnchanged

\* the registry with everything it accepts: the operations Timers defines and
\* the deletions it inherits
NextInherited ==
    \/ NextRegistry
    \/ \E nm \in Names : DelItem(nm)
    \/ \E nm \in Names : Pop(nm)

SpecInherited == InitRegistry /\ [][NextInherited]_vars

\* ---------------------------------------------------- add() from threads
\* Timers.add() has no lock: a thread may be preempted between any two of its
\* statements, and inside "self.data[name] += value" between reading the old
\* total and storing the new one. Each statement is a step of its own here.
ThreadUnchanged == UNCHANGED <<instances, clock, name, logger, initial_text, _start_time,
                               last, scopes, result, lastok, lastpast, returned, foreign,
                               removed>>

\* the samples held plus the add() calls that have not appended theirs yet
SamplesDue == TotalSamples + Cardinality({th \in ThreadIds : threads[th].pc = "append"})

\* thread th calls add(nm, value)
ThreadCall(th, nm, value) ==
    /\ threads[th].pc = "idle"
    /\ SamplesDue < MaxSamples
    /\ threads' = [threads EXCEPT ![th] = [pc |-> "append", name |-> nm, value |-> value,
                                           loaded |-> 0]]
    /\ UNCHANGED <<data, _timings>>
    /\ ThreadUnchanged

\* self._timings[name].append(value)
ThreadAppend(th) ==
    LET c == threads[th]
        old == IF c.name \in DOMAIN _timings THEN _timings[c.name] ELSE <<>>
    IN /\ c.pc = "append"
       /\ _timings' = [n \in DOMAIN _timings \cup {c.name} |->
                          IF n = c.name THEN Append(old, c.value) ELSE _timings[n]]
       /\ threads' = [threads EXCEPT ![th].pc = "setdefault"]
       /\ UNCHANGED data
       /\ ThreadUnchanged

\* self.data.setdefault(name, 0)
ThreadSetDefault(th) ==
    LET c == threads[th] IN
    /\ c.pc = "setdefault"
    /\ data' = [n \in DOMAIN data \cup {c.name} |-> IF n \in DOMAIN data THEN data[n] ELSE 0]
    /\ threads' = [threads EXCEPT ![th].pc = "load"]
    /\ UNCHANGED _timings
    /\ ThreadUnchanged

\* self.data[name] += value, first half: read self.data[name]
ThreadLoad(th) ==
    LET c == threads[th] IN
    /\ c.pc = "load"
    /\ threads' = [threads EXCEPT ![th].pc = "store", ![th].loaded = data[c.name]]
    /\ UNCHANGED <<data, _timings>>
    /\ ThreadUnchanged

\* self.data[name] += value, second half: store the sum; add() returns
ThreadStore(th) ==
    LET c == threads[th] IN
    /\ c.pc = "store"
    /\ data' = [data EXCEPT ![c.name] = c.loaded + c.value]
    /\ threads' = [threads EXCEPT ![th] = NotInAdd]
    /\ UNCHANGED _timings
    /\ ThreadUnchanged

NextThreads ==
    \/ \E th \in ThreadIds, nm \in Names, value \in Values : ThreadCall(th, nm, value)
    \/ \E th \in ThreadIds : ThreadAppend(th)
    \/ \E th \in ThreadIds : ThreadSetDefault(th)
    \/ \E th \in ThreadIds : ThreadLoad(th)
    \/ \E th \in ThreadIds : ThreadStore(th)

\* the registry with add() called from several threads at once
SpecThreads == InitRegistry /\ [][NextThreads]_vars

\* ======================================================================
\* Properties
\* ======================================================================

\* the innermost scope in progress is on timer t
InnermostIs(t) == scopes # <<>> /\ scopes[Len(scopes)].timer = t

\* a step that is a start() call on t: explicit, or entering a scope
StartCall(t) == Start(t) \/ \E kind \in ScopeKinds : Enter(t, kind)

\* a step that is a stop() call on t: explicit, or leaving the innermost scope
StopCall(t) == Stop(t) \/ (InnermostIs(t) /\ \E exc \in BodyOutcomes : Exit(exc))

\* ---------------------------------------------------------------- C1
\* C1 as stated: a timer is Running exactly when the last call on it that
\* returned normally was a start(). (A stop() whose sink raises has already
\* returned the timer to Idle, so the code violates this.)
C1_RunningIffLastSuccessfulIsStart ==
    \A t \in instances : Running(t) <=> lastok[t] = "start"

\* C1, amended: a timer is Running exactly when the last call on it that was
\* not rejected with TimerError was a start() that returned normally; and a
\* timer that is Idle, stopped before or not, accepts a start() (it succeeds
\* whenever the sink does not fail) and is Running after it.
C1_RunningIffLastAcceptedIsStart ==
    \A t \in instances :
        /\ Running(t) <=> lastpast[t] = "start"
        /\ ~Running(t) =>
              /\ start(t, "ok").raised = None
              /\ start(t, "ok")._start_time = Some(clock)

\* a timer that completed a cycle is running again
C1_Witness ==
    \E t \in instances : Running(t) /\ last[t] # NaN /\ lastok[t] = "start"

\* ---------------------------------------------------------------- C3
\* C3: start() on a Running timer raises TimerError, emits nothing and leaves
\* the timer Running with its original start timestamp, so that a stop() that
\* follows measures from the first start().
C3_StartOnRunningRejected ==
    [][\A t \in instances :
          (Running(t) /\ StartCall(t)) =>
              /\ result'.raised = Some("TimerError")
              /\ result'.emitted = <<>>
              /\ _start_time' = _start_time
              /\ UNCHANGED <<last, data, _timings, scopes>>
              /\ (stop(t, "ok").last)' = Some(clock - Val(_start_time[t]))]_vars

\* a start() was rejected on a timer that is running since an earlier time
C3_Witness ==
    /\ result.op = "start"
    /\ result.raised = Some("TimerError")
    /\ Running(result.timer)
    /\ Val(_start_time[result.timer]) < clock

\* ---------------------------------------------------------------- C4
\* C4: stop() on an Idle timer raises TimerError; the timer stays Idle, last is
\* unchanged, nothing is emitted and the registry is unchanged.
C4_StopOnIdleRejected ==
    [][\A t \in instances :
          (~Running(t) /\ StopCall(t)) =>
              /\ result'.raised = Some("TimerError")
              /\ result'.value = None
              /\ result'.emitted = <<>>
              /\ _start_time' = _start_time
              /\ UNCHANGED <<last, data, _timings>>]_vars

\* a stop() was rejected on a timer that had been stopped before
C4_Witness ==
    /\ result.op = "stop"
    /\ result.raised = Some("TimerError")
    /\ ~Running(result.timer)
    /\ last[result.timer] # NaN

\* ---------------------------------------------------------------- C5
\* C5: for a named timer (a name that stop() deposits under) that completed
\* N >= 1 cycles since the registry last lacked its name, with nothing else
\* adding under that name, count(name) is N and total(name) and registry[name] are
\* the sum of the N values stop() returned; and the value a stop() returns is
\* the timer's last.
C5_CyclesAccumulate ==
    /\ \A t \in instances :
          (/\ Truthy(name[t])
           /\ returned[t] # <<>>
           /\ Val(name[t]) \notin foreign
           /\ \A u \in instances \ {t} : name[u] = name[t] => returned[u] = <<>>)
          => /\ stat("count", name[t]) = [raised |-> None, value |-> Some(Len(returned[t]))]
             /\ stat("total", name[t]) = [raised |-> None, value |-> Some(sum(returned[t]))]
             /\ getitem(Val(name[t])) = [raised |-> None, value |-> Some(sum(returned[t]))]
    /\ (result.op \in {"stop", "__exit__", "return"} /\ result.value # None)
          => result.value = last[result.timer]

\* a named timer completed two cycles, not both of length zero
C5_Witness ==
    \E t \in instances :
        /\ Truthy(name[t])
        /\ Len(returned[t]) = 2
        /\ sum(returned[t]) > 0
        /\ Val(name[t]) \notin foreign
        /\ result.op = "stop"

\* ---------------------------------------------------------------- C6
\* the duration of the cycle that a stop() on the running timer t closes is recorded
Recorded(t) ==
    /\ last'[t] = Some(clock - Val(_start_time[t]))
    /\ result'.value = last'[t]
    /\ IF Truthy(name[t])
       THEN /\ stat("count", name[t])'.value =
                  Some(IF Val(name[t]) \in DOMAIN _timings
                       THEN Len(_timings[Val(name[t])]) + 1 ELSE 1)
            /\ getitem(Val(name[t]))'.value =
                  Some((IF Val(name[t]) \in DOMAIN data THEN data[Val(name[t])] ELSE 0)
                       + clock - Val(_start_time[t]))
       ELSE UNCHANGED <<data, _timings>>

\* the innermost scope, of the given kind, ends with the body raising exc
\* (None: normally)
ScopeEnds(kind, exc) ==
    /\ scopes # <<>>
    /\ scopes[Len(scopes)].kind = kind
    /\ Exit(exc)

\* C6 as stated: whenever the body of "with t:" ends, normally or raising exc,
\* the timer is Idle afterwards, the duration has been recorded and exc reaches
\* the caller. (Not so when the body stopped the timer itself, or when the sink
\* fails in stop(): then stop() raises in __exit__.)
C6_ExitAlwaysRecordsAndPropagates ==
    [][\A exc \in BodyOutcomes, t \in instances :
          (InnermostIs(t) /\ ScopeEnds("with", exc)) =>
              /\ _start_time'[t] = None
              /\ Running(t)
              /\ Recorded(t)
              /\ result'.raised = exc]_vars

\* C6, amended: "with t:" calls start() and the body runs only if start()
\* returns; whenever the body ends, normally or raising exc, stop() runs once
\* and the timer is Idle afterwards. If that stop() returns (the timer was still
\* Running and the sink did not fail), the duration has been recorded and exc
\* reaches the caller; if it raises (TimerError because the body had stopped the
\* timer, or the sink's failure), its exception reaches the caller instead of
\* exc and nothing is deposited.
C6_ExitStopsOnce ==
    [][/\ \A t \in instances :
             Enter(t, "with") =>
                 /\ result'.op = "__enter__"
                 /\ IF Running(t) THEN result'.raised = Some("TimerError")
                    ELSE result'.raised \in {None, Some("Exception")}
                 /\ IF result'.raised = None
                    THEN /\ _start_time'[t] = Some(clock)
                         /\ scopes' = Append(scopes, [timer |-> t, kind |-> "with"])
                    ELSE UNCHANGED <<_start_time, scopes>>
       /\ \A exc \in BodyOutcomes, t \in instances :
             (InnermostIs(t) /\ ScopeEnds("with", exc)) =>
                 /\ _start_time'[t] = None
                 /\ scopes' = SubSeq(scopes, 1, Len(scopes) - 1)
                 /\ IF ~Running(t)
                    THEN /\ result'.raised = Some("TimerError")
                         /\ UNCHANGED <<last, data, _timings>>
                    ELSE IF result'.value # None
                    THEN /\ Recorded(t)
                         /\ result'.raised = exc
                    ELSE /\ result'.raised = Some("Exception")
                         /\ logger[t] # "None"
                         /\ last'[t] = Some(clock - Val(_start_time[t]))
                         /\ UNCHANGED <<data, _timings>>]_vars

\* a with-block whose body raised has ended: the timer is Idle, the duration is
\* recorded under its name and the body's exception reached the caller
C6_Witness ==
    /\ result.op = "__exit__"
    /\ result.arg = Some("ValueError")
    /\ result.raised = Some("ValueError")
    /\ result.value # None
    /\ Val(result.value) > 0
    /\ ~Running(result.timer)
    /\ Truthy(name[result.timer])
    /\ returned[result.timer] # <<>>

\* ---------------------------------------------------------------- C7
\* C7 as stated: every call of a function decorated with t starts the timer and
\* runs the wrapped work, and every time the work ends, normally or raising exc,
\* stop() has run, exc reaches the caller, and a timer with a name has one
\* sample more. (Not so for a call made while the timer is Running, such as a
\* recursive one, nor when stop() raises.)
C7_EveryCallIsOneCycle ==
    [][/\ \A t \in instances :
             Enter(t, "call") =>
                 /\ result'.raised = None
                 /\ _start_time'[t] # None
                 /\ scopes' = Append(scopes, [timer |-> t, kind |-> "call"])
       /\ \A exc \in BodyOutcomes, t \in instances :
             (InnermostIs(t) /\ ScopeEnds("call", exc)) =>
                 /\ _start_time'[t] = None
                 /\ result'.raised = exc
                 /\ Truthy(name[t]) => TotalSamples' = TotalSamples + 1]_vars

\* C7, amended: a call of a function decorated with t that is made while the
\* timer is Idle and whose sink does not fail starts the timer and runs the
\* wrapped work; a call made while the timer is Running (a recursive call)
\* fails with TimerError before the work runs and changes nothing. When the work
\* ends, normally or raising exc, stop() runs once; if it returns, exc reaches
\* the caller after it and a timer whose name is a non-empty string has exactly
\* one sample more, the measured duration; if it raises, its exception reaches
\* the caller and no sample is added.
C7_CallIsOneCycle ==
    [][/\ \A t \in instances :
             Enter(t, "call") =>
                 /\ result'.op = "__call__"
                 /\ IF Running(t)
                    THEN /\ result'.raised = Some("TimerError")
                         /\ UNCHANGED <<_start_time, last, data, _timings, scopes>>
                    ELSE IF result'.raised = None
                    THEN /\ _start_time'[t] = Some(clock)
                         /\ scopes' = Append(scopes, [timer |-> t, kind |-> "call"])
                         /\ UNCHANGED <<last, data, _timings>>
                    ELSE /\ result'.raised = Some("Exception")
                         /\ logs_initial_text(t)
                         /\ UNCHANGED <<_start_time, last, data, _timings, scopes>>
       /\ \A exc \in BodyOutcomes, t \in instances :
             (InnermostIs(t) /\ ScopeEnds("call", exc)) =>
                 /\ _start_time'[t] = None
                 /\ scopes' = SubSeq(scopes, 1, Len(scopes) - 1)
                 /\ IF Running(t) /\ result'.value # None
                    THEN /\ result'.raised = exc
                         /\ result'.value = Some(clock - Val(_start_time[t]))
                         /\ IF Truthy(name[t])
                            THEN /\ TotalSamples' = TotalSamples + 1
                                 /\ _timings'[Val(name[t])] =
                                       (IF Val(name[t]) \in DOMAIN _timings
                                        THEN _timings[Val(name[t])] ELSE <<>>)
                                       \o <<clock - Val(_start_time[t])>>
                            ELSE UNCHANGED <<data, _timings>>
                    ELSE /\ result'.raised \in {Some("TimerError"), Some("Exception")}
                         /\ UNCHANGED <<data, _timings>>]_vars

\* the second call of a named decorated function has returned: two samples
C7_Witness ==
    /\ result.op = "return"
    /\ result.raised = None
    /\ Truthy(name[result.timer])
    /\ Len(returned[result.timer]) = 2
    /\ Len(_timings[Val(name[result.timer])]) = 2
    /\ Val(result.value) > 0

\* ---------------------------------------------------------------- C2
\* C2: the two mappings hold the same names, and for every name present
\* registry[name] equals total(name), which is the sum of the name's samples,
\* and count(name) is the number of its samples.
C2_TotalsMatchSamples ==
    /\ DOMAIN data = DOMAIN _timings
    /\ \A n \in DOMAIN data \cup DOMAIN _timings :
          /\ getitem(n) = [raised |-> None, value |-> Some(sum(_timings[n]))]
          /\ stat("total", Some(n)) = getitem(n)
          /\ stat("count", Some(n)) = [raised |-> None, value |-> Some(Len(_timings[n]))]

\* a name holds two samples that differ
C2_Witness ==
    \E n \in DOMAIN _timings :
        /\ Len(_timings[n]) = 2
        /\ _timings[n][1] # _timings[n][2]
        /\ result.op = "add"

\* ---------------------------------------------------------------- C8
\* every statistics query and the index lookup fail on name n with KeyError
Unknown(n) ==
    /\ getitem(n).raised = Some("KeyError")
    /\ \A f \in StatNames : stat(f, Some(n)).raised = Some("KeyError")

\* C8: clear() empties both mappings; after it every statistics query and the
\* index lookup fail with KeyError for every name, and an add(n, v) that follows
\* leaves n with the total v and the single sample v.
C8_ClearRemovesEverything ==
    [][Clear =>
          /\ data' = <<>>
          /\ _timings' = <<>>
          /\ \A n \in Names :
                /\ Unknown(n)'
                /\ \A v \in Values :
                      /\ DOMAIN add(n, v)'.data = {n}
                      /\ DOMAIN add(n, v)'._timings = {n}
                      /\ add(n, v)'.data[n] = v
                      /\ add(n, v)'._timings[n] = <<v>>]_vars

\* a name that a clear() removed has been added again and holds one sample
C8_Witness ==
    \E n \in removed :
        /\ n \in DOMAIN data
        /\ Len(_timings[n]) = 1
        /\ data[n] = _timings[n][1]
        /\ result.op = "add"

\* ---------------------------------------------------------------- C9
\* C9: registry[name] = value raises TypeError for every name, present or not,
\* and writes nothing: both mappings are as they were.
C9_SetItemRejected ==
    [][\A n \in Names, v \in Values :
          SetItem(n, v) =>
              /\ result'.raised = Some("TypeError")
              /\ UNCHANGED <<data, _timings>>]_vars

\* an assignment to a name that exists, of a value other than its total, was rejected
C9_Witness ==
    /\ result.op = "__setitem__"
    /\ result.raised = Some("TypeError")
    /\ result.arg[1] \in DOMAIN data
    /\ data[result.arg[1]] # result.arg[2]

\* ---------------------------------------------------------------- C10
\* C10: each of total, count, min, max, mean, median and stdev, asked for a
\* name, succeeds if the name was add()-ed since the registry was created or
\* last cleared, and fails with KeyError if not.
C10_StatsKnowAddedNames ==
    \A f \in StatNames, n \in Names :
        stat(f, Some(n)).raised = IF n \in foreign THEN None ELSE Some("KeyError")

\* a statistics query failed on a name that was added and then cleared, while
\* another name is present
C10_Witness ==
    /\ result.op \in StatNames
    /\ result.raised = Some("KeyError")
    /\ result.arg # None
    /\ Val(result.arg) \in removed
    /\ DOMAIN _timings # {}

\* ---------------------------------------------------------------- C11
\* C11: while add() calls from several threads interleave, every state another
\* thread can see has the two mappings in step: a name is in the totals exactly
\* when it is in the samples, and its total is the sum of its samples. (add()
\* appends the sample before it touches the total, so the code violates this.)
C11_ThreadsSeeMappingsInStep ==
    \A n \in DOMAIN data \cup DOMAIN _timings :
        /\ n \in DOMAIN data
        /\ n \in DOMAIN _timings
        /\ data[n] = sum(_timings[n])

\* the part of C11 about the end: once every add() call has returned, no
\* update is lost. (Two threads that both read the old total before either
\* stores lose one of the two values, so the code violates this too.)
C11_NoUpdateLost ==
    (\A th \in ThreadIds : threads[th].pc = "idle") =>
        \A n \in DOMAIN _timings : n \in DOMAIN data /\ data[n] = sum(_timings[n])

\* ---------------------------------------------------------------- C12
\* C12 as stated: a stop() that returns calls add(name, last) exactly once
\* whenever the timer's name is set, whatever string it is, and leaves the
\* registry unchanged when the timer has no name. (stop() tests the name for
\* truth, so a timer named "" deposits nothing and the code violates this.)
C12_StopDepositsForAnyName ==
    [][\A t \in instances :
          (StopCall(t) /\ result'.value # None)
          => IF name[t] # None
             THEN /\ _timings' = add(Val(name[t]), Val(last'[t]))._timings
                  /\ data' = add(Val(name[t]), Val(last'[t])).data
             ELSE UNCHANGED <<_timings, data>>]_vars

\* C12, amended: a stop() that returns calls add(name, last) exactly once
\* when the timer's name is a non-empty string, and leaves the registry
\* unchanged when the name is None or the empty string.
C12_StopDepositsForNonEmptyName ==
    [][\A t \in instances :
          (StopCall(t) /\ result'.value # None)
          => IF name[t] \notin {None, Some("")}
             THEN /\ _timings' = add(Val(name[t]), Val(last'[t]))._timings
                  /\ data' = add(Val(name[t]), Val(last'[t])).data
             ELSE UNCHANGED <<_timings, data>>]_vars

\* a timer named "a" has stopped a second time: the registry holds exactly the
\* two durations, the second one just added
C12_Witness ==
    /\ result.op \in {"stop", "__exit__", "return"}
    /\ result.value # None
    /\ name[result.timer] = Some("a")
    /\ "a" \notin foreign
    /\ _timings = [n \in {"a"} |-> returned[result.timer]]
    /\ Len(_timings["a"]) = 2
    /\ data["a"] = sum(_timings["a"])

\* ---------------------------------------------------------------- C13
\* C13 as stated: last is NaN from construction; only a stop() that returns
\* changes it (start() and failing stop() calls leave it alone), and after a
\* stop() that returns it is the clock at that stop() minus the clock at the
\* matching start(), which is not negative. (A stop() whose rendering or sink
\* raises has already stored the duration, so the code violates this.)
C13_LastSetOnlyByReturningStop ==
    [][\A t \in instances :
          /\ lastpast[t] = "none" => last[t] = NaN
          /\ (StartCall(t) /\ result'.raised = None) => _start_time'[t] = Some(clock)
          /\ ~(StopCall(t) /\ result'.value # None) => last'[t] = last[t]
          /\ (StopCall(t) /\ result'.value # None)
             => /\ last'[t] = Some(clock - Val(_start_time[t]))
                /\ Val(last'[t]) >= 0]_vars

\* C13, amended: last is NaN from construction; only a stop() on a Running
\* timer changes it (start() and stop() calls rejected on an Idle timer leave
\* it alone), and after every stop() on a Running timer, whether it returns or
\* fails in the rendering or the sink, it is the clock at that stop() minus the
\* clock at the matching start(), which is not negative.
C13_LastSetOnlyByStopOnRunning ==
    [][\A t \in instances :
          /\ lastpast[t] = "none" => last[t] = NaN
          /\ (StartCall(t) /\ result'.raised = None) => _start_time'[t] = Some(clock)
          /\ ~(StopCall(t) /\ Running(t)) => last'[t] = last[t]
          /\ (StopCall(t) /\ Running(t))
             => /\ last'[t] = Some(clock - Val(_start_time[t]))
                /\ Val(last'[t]) >= 0]_vars

\* a second cycle has ended, shorter than the first: last went from NaN to one
\* tick to zero
C13_Witness ==
    /\ result.op \in {"stop", "__exit__", "return"}
    /\ result.value = Some(0)
    /\ last[result.timer] = Some(0)
    /\ returned[result.timer] = <<1, 0>>

\* ---------------------------------------------------------------- C14
\* C14: over every operation the registry accepts, a name that has been
\* add()-ed since the last clear() is present in both the totals and the
\* samples mapping. ("del Timer.timers[name]" and pop(name), inherited from
\* UserDict, remove the name from the totals, so the code violates this.)
C14_AddedNamesStayUntilClear ==
    \A n \in foreign : n \in DOMAIN data /\ n \in DOMAIN _timings

\* ---------------------------------------------------------------- C15
\* C15: on a timer with a sink, a start() that returns emits exactly one
\* message, the initial message, if initial_text is configured and none
\* otherwise, and the stop() that returns after it emits exactly one message,
\* the report; on a timer without a sink neither emits anything. Nothing but
\* start() and stop() emits.
C15_OneMessagePerCall ==
    [][/\ \A t \in instances :
             /\ (StartCall(t) /\ result'.raised = None)
                => IF logger[t] # "None" /\ initial_text[t] # "False"
                   THEN /\ Len(result'.emitted) = 1
                        /\ result'.emitted[1][1] \in {"initial_text", "Timer {name} started",
                                                      "Timer started"}
                   ELSE result'.emitted = <<>>
             /\ (StopCall(t) /\ result'.value # None)
                => IF logger[t] # "None"
                   THEN /\ Len(result'.emitted) = 1
                        /\ result'.emitted[1][1] = "text"
                        /\ lastok[t] = "start"
                   ELSE result'.emitted = <<>>
       /\ (\A t \in instances : ~StartCall(t) /\ ~StopCall(t))
          => (result' = result \/ result'.emitted = <<>>)]_vars

\* a cycle on a timer with a sink and an initial text has just ended with its
\* report
C15_Witness ==
    /\ result.op \in {"stop", "__exit__", "return"}
    /\ result.value # None
    /\ logger[result.timer] = "print"
    /\ initial_text[result.timer] = "str"
    /\ Len(result.emitted) = 1
    /\ result.emitted[1][1] = "text"

\* ---------------------------------------------------------------- C16
\* C16: the one message a start() emits is chosen by the kind of initial_text:
\* True gives "Timer {name} started" with the name substituted ("Timer started"
\* for a timer without a name), a string gives that string with {name}
\* substituted, and a callable gives what the callable returns when called
\* without arguments. (start() never calls initial_text: a callable gets the
\* message of True, so the code violates this.)
C16_InitialMessageByKind ==
    [][\A t \in instances :
          (StartCall(t) /\ result'.raised = None /\ logger[t] # "None")
          => result'.emitted =
                << CASE initial_text[t] = "True" ->
                            IF Truthy(name[t]) THEN <<"Timer {name} started", name[t]>>
                            ELSE <<"Timer started", None>>
                     [] initial_text[t] = "str" -> <<"initial_text", name[t]>>
                     [] initial_text[t] = "callable" -> <<"initial_text()", None>> >>]_vars

\* ---------------------------------------------------------------- C17
\* the samples recorded under a name, none if the name is not there
SamplesOf(n) == IF n \in DOMAIN _timings THEN _timings[n] ELSE <<>>

\* C17: timers that share a name deposit into the same sample sequence of the
\* one registry: every stop() that returns, on either timer, appends its
\* duration at the end, and no other call changes the sequence, so the
\* sequence holds one duration per successful stop() in the order of the
\* stop() calls.
C17_SharedNameKeepsStopOrder ==
    [][/\ Len(SamplesOf("a")) = SumOver([t \in instances |-> Len(returned[t])], instances)
       /\ \A t \in instances :
             (StopCall(t) /\ result'.value # None)
             => /\ SamplesOf("a")' = Append(SamplesOf("a"), Val(result'.value))
                /\ returned'[t] = Append(returned[t], Val(result'.value))
       /\ (\A t \in instances : ~(StopCall(t) /\ result'.value # None))
             => /\ SamplesOf("a")' = SamplesOf("a")
                /\ returned' = returned]_vars

\* t1 has completed a cycle and is running again while t2, started in the
\* meantime, has just stopped: the two durations are there in stop order
C17_Witness ==
    /\ instances = {"t1", "t2"}
    /\ name["t1"] = name["t2"]
    /\ Running("t1")
    /\ result.op = "stop" /\ result.timer = "t2" /\ result.value = Some(0)
    /\ returned["t1"] = <<1>>
    /\ returned["t2"] = <<0>>
    /\ SamplesOf("a") = <<1, 0>>

\* ---------------------------------------------------------------- C18
\* C18: for every name that has at least one sample, min(name) is its smallest
\* and max(name) its largest sample, and both mean(name) and median(name) lie
\* between them: min <= median <= max and min <= mean <= max. (A quotient
\* num/den with den > 0 is compared after multiplying through by den.)
C18_MeanAndMedianBetweenMinAndMax ==
    \A n \in DOMAIN _timings :
        Len(_timings[n]) >= 1 =>
            LET lo == Val(stat("min", Some(n)).value)
                hi == Val(stat("max", Some(n)).value)
                avg == stat("mean", Some(n)).value
                mid == stat("median", Some(n)).value
            IN /\ \A i \in DOMAIN _timings[n] : lo <= _timings[n][i] /\ _timings[n][i] <= hi
               /\ \E i \in DOMAIN _timings[n] : lo = _timings[n][i]
               /\ \E i \in DOMAIN _timings[n] : hi = _timings[n][i]
               /\ avg[2] > 0 /\ mid[2] > 0
               /\ lo * avg[2] <= avg[1] /\ avg[1] <= hi * avg[2]
               /\ lo * mid[2] <= mid[1] /\ mid[1] <= hi * mid[2]

\* mean("a") has just been asked of the samples 2, 0: it is 1, strictly between
\* the minimum 0 and the maximum 2
C18_Witness ==
    /\ "a" \in DOMAIN _timings
    /\ _timings["a"] = <<2, 0>>
    /\ result.op = "mean"
    /\ result.arg = Some("a")
    /\ result.value = <<2, 2>>
    /\ stat("min", Some("a")).value = Some(0)
    /\ stat("max", Some("a")).value = Some(2)

\* ---------------------------------------------------------------- C19
\* C19: stdev(name) fails, with KeyError, exactly when the name is unknown; for
\* a name with one sample it returns NaN and for a name with two or more a
\* number; stdev() without a name never fails and returns, for each name, NaN
\* if it has fewer than two samples and its standard deviation otherwise.
C19_StdevOfOneSampleIsNaN ==
    /\ \A n \in Names :
          IF n \in DOMAIN _timings
          THEN /\ stat("stdev", Some(n)).raised = None
               /\ Len(_timings[n]) = 1 => stat("stdev", Some(n)).value = NaN
               /\ Len(_timings[n]) >= 2 => /\ stat("stdev", Some(n)).value # NaN
                                           /\ stat("stdev", Some(n)).value[3] > 0
          ELSE stat("stdev", Some(n)) = [raised |-> Some("KeyError"), value |-> None]
    /\ stat("stdev", None).raised = None
    /\ DOMAIN stat("stdev", None).value = DOMAIN _timings
    /\ \A n \in DOMAIN _timings :
          stat("stdev", None).value[n] = stat("stdev", Some(n)).value
    /\ (result.op = "stdev" /\ result.raised # None)
          => (result.arg # None /\ Val(result.arg) \notin DOMAIN _timings)

\* stdev() without a name has just answered NaN for both "a" and "b", which
\* have one sample each, and stdev("a") answers NaN as well
C19_Witness ==
    /\ result.op = "stdev"
    /\ result.arg = None
    /\ result.raised = None
    /\ DOMAIN _timings = {"a", "b"}
    /\ Len(_timings["a"]) = 1
    /\ Len(_timings["b"]) = 1
    /\ result.value = [n \in {"a", "b"} |-> NaN]
    /\ stat("stdev", Some("a")) = [raised |-> None, value |-> NaN]

\* ---------------------------------------------------------------- C20
\* C20: in every state the registry reaches through add, clear, the statistics
\* queries, index lookup and rejected assignment, every name in the samples
\* mapping has at least one sample, so the "values or [0]" fallback of min,
\* max, mean and median never replaces the samples of a name.
C20_NoNameWithoutSamples ==
    \A n \in DOMAIN _timings :
        /\ Len(_timings[n]) >= 1
        /\ OrZero(_timings[n]) = _timings[n]

\* a query for a name the registry does not hold has just failed, after an
\* add() and a clear() and another add(): "b" is there with its one sample and
\* "a", removed by the clear() and asked for since, is not
C20_Witness ==
    /\ result.op \in {"min", "max", "mean", "median"}
    /\ result.arg = Some("a")
    /\ result.raised = Some("KeyError")
    /\ "a" \in removed
    /\ DOMAIN _timings = {"b"}
    /\ Len(_timings["b"]) = 1

\* ---------------------------------------------------------------- C21
\* a call of the function t decorates is in progress
CallInProgress(t) ==
    \E i \in DOMAIN scopes : scopes[i] = [timer |-> t, kind |-> "call"]

\* C21: the one Timer instance backs every call of the function it decorates.
\* While a call is in progress and its timer is Running, a nested call fails
\* with TimerError at its start(): its body is not entered, nothing is emitted
\* or recorded, and the timer stays Running with its original start timestamp.
\* Only a stop() ends that cycle, and the exit of the outer call stops the
\* timer, measuring from the original timestamp.
C21_NestedCallRejected ==
    [][\A t \in instances :
          /\ (CallInProgress(t) /\ Running(t) /\ Enter(t, "call"))
             => /\ result'.op = "__call__"
                /\ result'.raised = Some("TimerError")
                /\ result'.emitted = <<>>
                /\ scopes' = scopes
                /\ _start_time'[t] = _start_time[t]
                /\ UNCHANGED <<last, data, _timings>>
          /\ (Running(t) /\ _start_time'[t] # _start_time[t])
             => (StopCall(t) /\ _start_time'[t] = None)
          /\ (CallInProgress(t) /\ Running(t) /\ InnermostIs(t)
                /\ \E exc \in BodyOutcomes : Exit(exc))
             => /\ _start_time'[t] = None
                /\ last'[t] = Some(clock - Val(_start_time[t]))]_vars

\* a nested call has just been rejected while the outer call, entered one tick
\* earlier, is still in progress with its timer running since then
C21_Witness ==
    /\ result.op = "__call__"
    /\ result.raised = Some("TimerError")
    /\ CallInProgress(result.timer)
    /\ _start_time[result.timer] = Some(0)
    /\ clock = 1
    /\ last[result.timer] = NaN

\* ---------------------------------------------------------------- C22
\* C22: a stop() on a Running timer that does not return has failed in the
\* rendering of the text or in the sink, which takes a sink to be present;
\* the failure reaches the caller, and it finds the timer Idle, last set to
\* the duration measured and the registry as it was: the state was updated
\* before the report, and the deposit comes after it.
C22_FailedReportKeepsMeasurement ==
    [][\A t \in instances :
          (StopCall(t) /\ Running(t) /\ result'.value = None)
          => /\ logger[t] # "None"
             /\ result'.raised = Some("Exception")
             /\ _start_time'[t] = None
             /\ last'[t] = Some(clock - Val(_start_time[t]))
             /\ UNCHANGED <<data, _timings, returned>>
             /\ (stop(t, "ok"))'.raised = Some("TimerError")]_vars

\* the sink has just failed in the stop() of a timer named "a" that ran for one
\* tick: the timer is Idle, last is 1 and the registry has no sample
C22_Witness ==
    /\ result.op \in {"stop", "__exit__", "return"}
    /\ result.raised = Some("Exception")
    /\ name[result.timer] = Some("a")
    /\ ~Running(result.timer)
    /\ last[result.timer] = Some(1)
    /\ _timings = <<>>
    /\ data = <<>>

\* ---------------------------------------------------------------- C23
\* name n is in neither mapping, a lookup or a statistics query for it fails
\* with KeyError, and the queries without a name do not list it
Absent(n) ==
    /\ n \notin DOMAIN data
    /\ n \notin DOMAIN _timings
    /\ Unknown(n)
    /\ \A f \in StatNames : n \notin DOMAIN stat(f, None).value

\* C23: a statistics query or an index lookup that fails on an unknown name
\* (the step whose result is that of the failed call) leaves both mappings exactly as they were; the name is in neither of them
\* afterwards, so the same query, and every other one, fails again, and the
\* queries without a name do not list it.
C23_FailedQueryChangesNothing ==
    [][\A n \in Names :
          /\ \A f \in StatNames :
                (result'.op = f /\ result'.arg = Some(n) /\ result'.raised # None)
                => (UNCHANGED <<data, _timings>> /\ Absent(n)')
          /\ (result'.op = "__getitem__" /\ result'.arg = <<n>> /\ result'.raised # None)
                => (UNCHANGED <<data, _timings>> /\ Absent(n)')]_vars

\* the lookup of "a" has just failed in a registry that holds "b" only:
\* count() lists "b" and nothing else
C23_Witness ==
    /\ result.op = "__getitem__"
    /\ result.arg = <<"a">>
    /\ result.raised = Some("KeyError")
    /\ DOMAIN data = {"b"}
    /\ DOMAIN _timings = {"b"}
    /\ stat("count", None) = [raised |-> None, value |-> [n \in {"b"} |-> Some(1)]]

\* ---------------------------------------------------------------- C24
\* the total recorded under a name, none if the name is not there
TotalOf(n) == IF n \in DOMAIN data THEN Some(data[n]) ELSE None

\* the step adds under name n: add(n, v) called directly, or by a stop() that
\* returns on a timer named n
AddsUnder(n) ==
    \/ \E t \in instances : StopCall(t) /\ result'.value # None /\ name[t] = Some(n)
    \/ \E value \in Values : Add(n, value)

\* C24: operations change only what they name. A step that does not add under
\* a name leaves that name's total and samples as they were, so add(name, v),
\* direct or from stop(), leaves every other name unchanged; start() changes
\* neither last nor the registry; and start() and stop() on one Timer instance
\* leave the start timestamp and last of every other instance unchanged, also
\* when the instances share a name.
C24_OperationsChangeOnlyWhatTheyName ==
    [][/\ \A n \in Names :
             ~AddsUnder(n) => (SamplesOf(n)' = SamplesOf(n) /\ TotalOf(n)' = TotalOf(n))
       /\ \A t \in instances :
             /\ StartCall(t) => UNCHANGED <<last, data, _timings>>
             /\ (StartCall(t) \/ StopCall(t))
                => \A u \in instances \ {t} :
                      /\ _start_time'[u] = _start_time[u]
                      /\ last'[u] = last[u]]_vars

\* two timers share the name "a"; t1 is running since time 0 and has never
\* completed a cycle, t2 has just stopped and deposited under "a", and "b",
\* added directly before that, still has its one sample and total
C24_Witness ==
    /\ instances = {"t1", "t2"}
    /\ name["t1"] = Some("a") /\ name["t2"] = Some("a")
    /\ _start_time["t1"] = Some(0)
    /\ last["t1"] = NaN
    /\ clock = 1
    /\ result.op = "stop" /\ result.timer = "t2" /\ result.value # None
    /\ SamplesOf("a") = <<Val(result.value)>>
    /\ SamplesOf("b") = <<1>>
    /\ TotalOf("b") = Some(1)

====
